---------------------------- MODULE Spec2Model ----------------------------
(***************************************************************************)
(* Fee ledger of the school ERP (routers/fee_ledger.py, models/fee_models) *)
(* as a state machine: the fee structure store, the payment ledger, the    *)
(* per-year receipt counter, the dues calculators, the payment processor   *)
(* and the balance sync job.                                               *)
(*                                                                         *)
(* Amounts are whole rupees (the Float columns hold integers exactly).     *)
(* A receipt number "REC-<year>-<zfill 4>" is the triple                   *)
(* <<"REC", year, digits>> with the digits zfill(4) produces.              *)
(***************************************************************************)
EXTENDS Integers, Sequences, FiniteSets, TLC

VARIABLES
    today,            \* datetime.date.today(): [year, month]
    structures,       \* table fee_structures: rows in id order
    students,         \* table students: id -> row (class, transport, status, current_balance)
    ledger,           \* table student_fee_ledgers, committed rows in commit order
    counters,         \* table receipt_counters: year -> last_number (NoRow: no row)
    pc,               \* concurrent collect_fee: where each request stands
    txn,              \* concurrent collect_fee: the session's uncommitted work
    ticks,            \* month changes so far
    edits,            \* fee-structure saves so far
    paid_month_rows   \* table paid_months: rows in id order

vars == <<today, structures, students, ledger, counters, pc, txn, ticks, edits, paid_month_rows>>

-----------------------------------------------------------------------------
(* Bounds of the model *)

MaxLedger == 2
MaxTicks == 1
MaxEdits == 1
MaxSel == 2

-----------------------------------------------------------------------------
(* Constants of the program *)

MONTH_ORDER == <<"Apr", "May", "Jun", "Jul", "Aug", "Sep", "Oct", "Nov", "Dec", "Jan", "Feb", "Mar">>

month_names == <<"Jan", "Feb", "Mar", "Apr", "May", "Jun", "Jul", "Aug", "Sep", "Oct", "Nov", "Dec">>

VALID_PAYMENT_MODES == {"Cash", "UPI", "Cheque", "Bank Transfer"}

ACADEMIC_YEAR == "2025-2026"

ZFILL_WIDTH == 4

NoRow == -1

-----------------------------------------------------------------------------
(* Master data the ledger engine reads *)

\* fee_head_masters rows
FeeHeads ==
    { [id |-> 1, head_name |-> "Tuition Fee", frequency |-> "Monthly", is_transport |-> FALSE],
      [id |-> 2, head_name |-> "Admission Fee", frequency |-> "One-time", is_transport |-> FALSE],
      [id |-> 3, head_name |-> "Bus Fee", frequency |-> "Monthly", is_transport |-> TRUE] }

fee_head_val(id) == CHOOSE h \in FeeHeads : h.id = id

\* transport_points rows: id -> monthly_charge (TransportCreate puts no bound on the charge)
TransportPoints == (1 :> 500) @@ (2 :> -200)

\* The students of the school: id -> row as add_student creates it
StudentRows ==
    (1 :> [class_id |-> 1, transport_opted |-> FALSE, pickup_point_id |-> 0, status |-> TRUE, current_balance |-> 0])
    @@ (2 :> [class_id |-> 1, transport_opted |-> TRUE, pickup_point_id |-> 1, status |-> TRUE, current_balance |-> 0])
    @@ (3 :> [class_id |-> 2, transport_opted |-> TRUE, pickup_point_id |-> 2, status |-> FALSE, current_balance |-> 0])
    @@ (4 :> [class_id |-> 1, transport_opted |-> TRUE, pickup_point_id |-> 9, status |-> TRUE, current_balance |-> 0])
    @@ (5 :> [class_id |-> 1, transport_opted |-> FALSE, pickup_point_id |-> 1, status |-> TRUE, current_balance |-> 0])

-----------------------------------------------------------------------------
(* Helpers *)

RECURSIVE SumSeq(_)
SumSeq(s) == IF s = <<>> THEN 0 ELSE Head(s) + SumSeq(Tail(s))

RECURSIVE Flatten(_)
Flatten(ss) == IF ss = <<>> THEN <<>> ELSE Head(ss) \o Flatten(Tail(ss))

Range(s) == {s[i] : i \in 1..Len(s)}

IndexOf(s, x) == CHOOSE i \in 1..Len(s) : s[i] = x

Max(a, b) == IF a >= b THEN a ELSE b

\* str(n) for n >= 0, as its decimal digits
RECURSIVE DigitsOf(_)
DigitsOf(n) == IF n < 10 THEN <<n>> ELSE Append(DigitsOf(n \div 10), n % 10)

\* Mutant: the digits are not padded
zfill_no_padding(ds, width) == ds

\* str.zfill(width)
RECURSIVE zfill(_, _)
zfill(ds, width) == IF Len(ds) >= width THEN ds ELSE zfill(<<0>> \o ds, width)

\* int(digits)
RECURSIVE ValueOf(_)
ValueOf(ds) == IF ds = <<>> THEN 0 ELSE 10 * ValueOf(SubSeq(ds, 1, Len(ds) - 1)) + ds[Len(ds)]

get_current_academic_month(t) == month_names[t.month]

\* Mutant: the current month is left out of the sequence
get_months_till_current_exclusive(t) ==
    LET current == get_current_academic_month(t)
    IN  SubSeq(MONTH_ORDER, 1, IndexOf(MONTH_ORDER, current) - 1)

get_months_till_current(t) ==
    LET current == get_current_academic_month(t)
    IN  IF current \in Range(MONTH_ORDER)
        THEN SubSeq(MONTH_ORDER, 1, IndexOf(MONTH_ORDER, current))
        ELSE MONTH_ORDER

\* f"REC-{year}-{str(counter.last_number).zfill(4)}"
ReceiptNo(year, n) == <<"REC", year, zfill(DigitsOf(n), ZFILL_WIDTH)>>

ReceiptYear(r) == r[2]

ReceiptSeq(r) == ValueOf(r[3])

-----------------------------------------------------------------------------
(* Dues calculation *)

\* Mutant: only the student's latest ledger row is read
all_paid_months_latest_row(sid, L) ==
    LET mine == {j \in 1..Len(L) : L[j].student_id = sid}
    IN  IF mine = {} THEN {}
        ELSE Range(L[CHOOSE j \in mine : \A k \in mine : k <= j].months_paid)

\* get_student_dues: all_paid_months, filled from the months_paid of the student's ledger rows
all_paid_months(sid, L) ==
    UNION { Range(L[i].months_paid) : i \in {j \in 1..Len(L) : L[j].student_id = sid} }

\* calculate_student_dues: paid_months, filled from the student's ledger rows
paid_months(sid, L) ==
    UNION { Range(L[i].months_paid) : i \in {j \in 1..Len(L) : L[j].student_id = sid} }

IsClassStructure(row, class_id) == row.class_id = class_id /\ row.is_active

\* Mutant: the pickup point is charged whether or not transport is opted
HasTransport_ignores_opted(student) ==
    /\ student.pickup_point_id # 0
    /\ student.pickup_point_id \in DOMAIN TransportPoints

\* if student.transport_opted and student.pickup_point_id: ... if transport:
HasTransport(student) ==
    /\ student.transport_opted
    /\ student.pickup_point_id # 0
    /\ student.pickup_point_id \in DOMAIN TransportPoints

\* GET /dues/{student_id}: the dues list, the total and the paid months
get_student_dues(sid, S, L, F, t) ==
    LET student == S[sid]
        paid == all_paid_months(sid, L)
        structs == SelectSeq(F, LAMBDA row : IsClassStructure(row, student.class_id))
        feeStructs == SelectSeq(structs, LAMBDA row : ~fee_head_val(row.fee_head_id).is_transport)
        months_to_check == get_months_till_current(t)
        status(m) == IF m \in paid THEN "Paid" ELSE "Due"
        classEntries(m) ==
            [i \in 1..Len(feeStructs) |->
                [fee_head |-> fee_head_val(feeStructs[i].fee_head_id).head_name,
                 fee_head_id |-> feeStructs[i].fee_head_id,
                 month |-> m,
                 amount |-> feeStructs[i].amount,
                 status |-> status(m)]]
        transportEntries ==
            IF HasTransport(student)
            THEN [k \in 1..Len(months_to_check) |->
                    [fee_head |-> "Transport Fee",
                     fee_head_id |-> 0,
                     month |-> months_to_check[k],
                     amount |-> TransportPoints[student.pickup_point_id],
                     status |-> status(months_to_check[k])]]
            ELSE <<>>
        dues_list ==
            Flatten([k \in 1..Len(months_to_check) |-> classEntries(months_to_check[k])])
                \o transportEntries
        dueAmounts == [i \in 1..Len(dues_list) |->
                         IF dues_list[i].status = "Due" THEN dues_list[i].amount ELSE 0]
    IN  [dues |-> dues_list,
         total_due |-> SumSeq(dueAmounts),
         paid_months |-> paid,
         current_month |-> get_current_academic_month(t),
         current_balance |-> student.current_balance]

\* The fee of one month as calculate_student_dues adds it up
MonthlyFee(student, F) ==
    LET fee_structures ==
            SelectSeq(F, LAMBDA row : IsClassStructure(row, student.class_id) /\ row.amount > 0)
        amounts == [i \in 1..Len(fee_structures) |->
                      IF ~fee_head_val(fee_structures[i].fee_head_id).is_transport
                      THEN fee_structures[i].amount ELSE 0]
        transport ==
            IF HasTransport(student)
            THEN TransportPoints[student.pickup_point_id]
            ELSE 0
    IN  SumSeq(amounts) + transport

\* Mutant: the balance_due of the student's receipts is added to the recomputed dues
calculate_student_dues_adds_balance_due(sid, S, L, F, t) ==
    LET months_till_now == get_months_till_current(t)
        paid == paid_months(sid, L)
        monthly_fee == MonthlyFee(S[sid], F)
        perMonth == [k \in 1..Len(months_till_now) |->
                       IF months_till_now[k] \notin paid THEN monthly_fee ELSE 0]
        carried == [i \in 1..Len(L) |-> IF L[i].student_id = sid THEN L[i].balance_due ELSE 0]
    IN  Max(SumSeq(perMonth), 0) + SumSeq(carried)

\* Mutant: the recomputed dues are added to the stored balance
calculate_student_dues_adds_stored(sid, S, L, F, t) ==
    LET months_till_now == get_months_till_current(t)
        paid == paid_months(sid, L)
        monthly_fee == MonthlyFee(S[sid], F)
        perMonth == [k \in 1..Len(months_till_now) |->
                       IF months_till_now[k] \notin paid THEN monthly_fee ELSE 0]
    IN  Max(SumSeq(perMonth), 0) + S[sid].current_balance

\* Mutant: the total is returned without max(total_due, 0)
calculate_student_dues_unclamped(sid, S, L, F, t) ==
    LET months_till_now == get_months_till_current(t)
        paid == paid_months(sid, L)
        monthly_fee == MonthlyFee(S[sid], F)
        perMonth == [k \in 1..Len(months_till_now) |->
                       IF months_till_now[k] \notin paid THEN monthly_fee ELSE 0]
    IN  SumSeq(perMonth)

\* calculate_student_dues(student, db): the balance collect, sync and recalculate store
calculate_student_dues(sid, S, L, F, t) ==
    LET student == S[sid]
        months_till_now == get_months_till_current(t)
        paid == paid_months(sid, L)
        monthly_fee == MonthlyFee(student, F)
        perMonth == [k \in 1..Len(months_till_now) |->
                       IF months_till_now[k] \notin paid THEN monthly_fee ELSE 0]
    IN  Max(SumSeq(perMonth), 0)

-----------------------------------------------------------------------------
(* Payment processing: the pure part of collect_fee *)

\* item.get('fee_head', '').lower().startswith('previous balance')
PreviousBalanceNames == {"Previous Balance", "previous balance (old)"}

IsPreviousBalanceItem(item) == item.fee_head \in PreviousBalanceNames

\* sum(item.get('amount', 0) for item in pay.selected_items)
ItemsTotal(items) == SumSeq([i \in 1..Len(items) |-> items[i].amount])

\* f"{item.get('fee_head', 'Unknown')}|{item.get('month', 'N/A')}"
BreakdownKey(item) == <<item.fee_head, item.month>>

LastIndexOfKey(items, k) ==
    CHOOSE i \in 1..Len(items) :
        /\ BreakdownKey(items[i]) = k
        /\ \A j \in (i + 1)..Len(items) : BreakdownKey(items[j]) # k

\* The dict the loop fills: a later item with the same key overwrites an earlier one
ItemsBreakdown(items) ==
    [k \in {BreakdownKey(items[i]) : i \in 1..Len(items)} |-> items[LastIndexOfKey(items, k)].amount]

\* Mutant: the carried balance is added whether or not a previous-balance line was sent
AddsPreviousBalance_always(items, previous_balance) == previous_balance > 0

\* The carried balance is added when it is positive and no selected item is a previous-balance line
AddsPreviousBalance(items, previous_balance) ==
    /\ previous_balance > 0
    /\ ~\E i \in 1..Len(items) : IsPreviousBalanceItem(items[i])

\* Mutant: the fine is taken off the total like the discount
PaymentTotals_fine_subtracted(pay, current_balance) ==
    LET previous_balance == current_balance
        adds == AddsPreviousBalance(pay.selected_items, previous_balance)
        total_due == ItemsTotal(pay.selected_items) + (IF adds THEN previous_balance ELSE 0)
        breakdown ==
            IF adds
            THEN (<<"Previous Balance", "Carried Forward">> :> previous_balance)
                    @@ ItemsBreakdown(pay.selected_items)
            ELSE ItemsBreakdown(pay.selected_items)
        net_payable == total_due - pay.discount - pay.fine
        balance_due == net_payable - pay.amount_received
    IN  [total_due |-> total_due, breakdown |-> breakdown,
         net_payable |-> net_payable, balance_due |-> balance_due]

\* The totals collect_fee computes before it opens the transaction
PaymentTotals(pay, current_balance) ==
    LET previous_balance == current_balance
        adds == AddsPreviousBalance(pay.selected_items, previous_balance)
        total_due == ItemsTotal(pay.selected_items) + (IF adds THEN previous_balance ELSE 0)
        breakdown ==
            IF adds
            THEN (<<"Previous Balance", "Carried Forward">> :> previous_balance)
                    @@ ItemsBreakdown(pay.selected_items)
            ELSE ItemsBreakdown(pay.selected_items)
        net_payable == total_due - pay.discount + pay.fine
        balance_due == net_payable - pay.amount_received
    IN  [total_due |-> total_due, breakdown |-> breakdown,
         net_payable |-> net_payable, balance_due |-> balance_due]

\* StudentFeeLedger(...) as collect_fee builds it
LedgerRow(pay, totals, receipt_no, date) ==
    [student_id |-> pay.student_id,
     receipt_no |-> receipt_no,
     transaction_date |-> date,
     months_paid |-> pay.selected_months,
     total_due |-> totals.total_due,
     discount |-> pay.discount,
     fine |-> pay.fine,
     net_payable |-> totals.net_payable,
     paid_amount |-> pay.amount_received,
     balance_due |-> totals.balance_due,
     payment_mode |-> pay.payment_mode,
     payment_breakdown |-> totals.breakdown]

\* The counter value generate_receipt_number works from: a missing row is created with 0
CounterBase(C, year) == IF year \in DOMAIN C /\ C[year] # NoRow THEN C[year] ELSE 0

\* Mutant: the increment is left out
NextNumber_no_increment(C, year) == CounterBase(C, year)

\* Mutant: the counter is advanced twice
NextNumber_skips(C, year) == CounterBase(C, year) + 2

\* counter.last_number += 1
NextNumber(C, year) == CounterBase(C, year) + 1

\* generate_receipt_number(db) run alone: the new counter table and the receipt string
generate_receipt_number(C, t) ==
    LET year == t.year
        n == NextNumber(C, year)
    IN  [counters |-> [C EXCEPT ![year] = n], receipt_no |-> ReceiptNo(year, n)]

-----------------------------------------------------------------------------
(* The requests the model sends *)

Years == {2025, 2026, 2027}

Procs == {1, 2}

StudentOrder == <<1, 2, 3, 4, 5>>

\* selected_months: the first j months of the cycle, and a month out of order
SelMonthLists == {SubSeq(MONTH_ORDER, 1, j) : j \in 0..MaxSel} \cup {<<"May">>}

\* selected_items as the collection page sends them: the Due lines of GET /dues for the
\* selected months, alone (mode "dues") or followed by a previous-balance line named by the mode
DueItems(sid, months, S, L, F, t) ==
    LET d == get_student_dues(sid, S, L, F, t).dues
        picked == SelectSeq(d, LAMBDA e : e.status = "Due" /\ e.month \in Range(months))
    IN  [i \in 1..Len(picked) |->
            [fee_head |-> picked[i].fee_head, month |-> picked[i].month, amount |-> picked[i].amount]]

PreviousBalanceItem(name, S, sid) ==
    [fee_head |-> name, month |-> "N/A", amount |-> S[sid].current_balance]

SelectedItems(mode, sid, months, S, L, F, t) ==
    IF mode = "dues"
    THEN DueItems(sid, months, S, L, F, t)
    ELSE Append(DueItems(sid, months, S, L, F, t), PreviousBalanceItem(mode, S, sid))

PaymentRequest(sid, months, items, discount, fine, received) ==
    [student_id |-> sid, selected_months |-> months, selected_items |-> items,
     payment_mode |-> "Cash", discount |-> discount, fine |-> fine,
     amount_received |-> received]

\* Mutant: the request model without the payment_mode validator
ValidPaymentRequest_any_mode(pay) ==
    /\ pay.student_id > 0
    /\ pay.discount >= 0
    /\ pay.fine >= 0
    /\ pay.amount_received >= 0
    /\ \A i \in 1..Len(pay.selected_months) : pay.selected_months[i] \in Range(MONTH_ORDER)

\* PaymentRequest: the field constraints and validators of the request model
ValidPaymentRequest(pay) ==
    /\ pay.student_id > 0
    /\ pay.payment_mode \in VALID_PAYMENT_MODES
    /\ pay.discount >= 0
    /\ pay.fine >= 0
    /\ pay.amount_received >= 0
    /\ \A i \in 1..Len(pay.selected_months) : pay.selected_months[i] \in Range(MONTH_ORDER)

NoTxn == [op |-> "none"]

-----------------------------------------------------------------------------
(* The handlers, each run alone from request to response *)

\* The database after POST /pay commits
CollectResult(pay, S, L, C, F, t) ==
    LET sid == pay.student_id
        totals == PaymentTotals(pay, S[sid].current_balance)
        gen == generate_receipt_number(C, t)
        row == LedgerRow(pay, totals, gen.receipt_no, t)
        flushed == Append(L, row)
        new_balance == calculate_student_dues(sid, S, flushed, F, t)
    IN  [ledger |-> flushed,
         counters |-> gen.counters,
         students |-> [S EXCEPT ![sid].current_balance = new_balance],
         receipt_no |-> gen.receipt_no,
         balance_due |-> new_balance]

\* Mutant: the ledger accepts a receipt_no it already holds
ReceiptNoTaken_never(L, receipt_no) == FALSE

\* receipt_no is unique: an insert meeting a committed row with the same value is refused
ReceiptNoTaken(L, receipt_no) == \E i \in 1..Len(L) : L[i].receipt_no = receipt_no

\* POST /pay answers with a receipt: the request is valid, the student exists and the
\* ledger insert meets no row with the same receipt_no
CollectSucceeds(pay, S, L, C, F, t) ==
    /\ ValidPaymentRequest(pay)
    /\ pay.student_id \in DOMAIN S
    /\ ~ReceiptNoTaken(L, CollectResult(pay, S, L, C, F, t).receipt_no)

\* POST /pay
collect_fee(pay) ==
    /\ Len(ledger) < MaxLedger
    /\ CollectSucceeds(pay, students, ledger, counters, structures, today)
    /\ LET res == CollectResult(pay, students, ledger, counters, structures, today)
       IN  /\ ledger' = res.ledger
           /\ counters' = res.counters
           /\ students' = res.students
    /\ UNCHANGED <<paid_month_rows, today, structures, pc, txn, ticks, edits>>

\* The students table after POST /sync-balances
SyncStudents(S, L, F, t) ==
    [s \in DOMAIN S |->
        IF S[s].status
        THEN [S[s] EXCEPT !.current_balance = calculate_student_dues(s, S, L, F, t)]
        ELSE S[s]]

\* The body POST /sync-balances answers with
SyncResponse(S, L, F, t) ==
    LET active == SelectSeq(StudentOrder, LAMBDA s : s \in DOMAIN S /\ S[s].status)
    IN  [success |-> TRUE,
         message |-> <<"Updated", Len(active), "students">>,
         total_pending_dues |->
            SumSeq([i \in 1..Len(active) |-> calculate_student_dues(active[i], S, L, F, t)])]

\* POST /sync-balances
sync_all_student_balances ==
    /\ students' = SyncStudents(students, ledger, structures, today)
    /\ UNCHANGED <<paid_month_rows, today, structures, ledger, counters, pc, txn, ticks, edits>>

\* GET /recalculate/{student_id}
recalculate_single_student(sid) ==
    /\ sid \in DOMAIN students
    /\ students' = [students EXCEPT ![sid].current_balance =
                        calculate_student_dues(sid, students, ledger, structures, today)]
    /\ UNCHANGED <<paid_month_rows, today, structures, ledger, counters, pc, txn, ticks, edits>>

\* The row create_fee_structure and save_bulk_structure look for
ExistingStructure(F, class_id, fee_head_id) ==
    {i \in 1..Len(F) : /\ F[i].class_id = class_id
                       /\ F[i].fee_head_id = fee_head_id
                       /\ F[i].academic_year = ACADEMIC_YEAR}

NewStructure(class_id, fee_head_id, amount) ==
    [class_id |-> class_id, fee_head_id |-> fee_head_id, amount |-> amount,
     academic_year |-> ACADEMIC_YEAR, is_active |-> TRUE]

\* The table after POST /structure
SaveStructure(F, class_id, fee_head_id, amount) ==
    LET found == ExistingStructure(F, class_id, fee_head_id)
    IN  IF found # {}
        THEN LET i == CHOOSE k \in found : \A j \in found : k <= j
             IN  [F EXCEPT ![i].amount = amount, ![i].is_active = TRUE]
        ELSE Append(F, NewStructure(class_id, fee_head_id, amount))

\* The table after one entry of POST /structure/bulk
SaveBulkEntry(F, class_id, fee_head_id, amount) ==
    LET found == ExistingStructure(F, class_id, fee_head_id)
    IN  IF found # {}
        THEN LET i == CHOOSE k \in found : \A j \in found : k <= j
             IN  [F EXCEPT ![i].amount = amount, ![i].is_active = (amount > 0)]
        ELSE IF amount > 0
             THEN Append(F, NewStructure(class_id, fee_head_id, amount))
             ELSE F

RECURSIVE SaveBulk(_, _)
SaveBulk(F, entries) ==
    IF entries = <<>> THEN F
    ELSE SaveBulk(SaveBulkEntry(F, Head(entries).class_id, Head(entries).fee_head_id,
                                Head(entries).amount), Tail(entries))

\* POST /structure
create_fee_structure(class_id, fee_head_id, amount) ==
    /\ edits < MaxEdits
    /\ edits' = edits + 1
    /\ structures' = SaveStructure(structures, class_id, fee_head_id, amount)
    /\ UNCHANGED <<paid_month_rows, today, students, ledger, counters, pc, txn, ticks>>

\* POST /structure/bulk
save_bulk_structure(entries) ==
    /\ edits < MaxEdits
    /\ edits' = edits + 1
    /\ structures' = SaveBulk(structures, entries)
    /\ UNCHANGED <<paid_month_rows, today, students, ledger, counters, pc, txn, ticks>>

\* The calendar moves to the next month
NextMonth(t) == IF t.month = 12 THEN [year |-> t.year + 1, month |-> 1]
                ELSE [year |-> t.year, month |-> t.month + 1]

Tick ==
    /\ ticks < MaxTicks
    /\ ticks' = ticks + 1
    /\ today' = NextMonth(today)
    /\ UNCHANGED <<paid_month_rows, structures, students, ledger, counters, pc, txn, edits>>

-----------------------------------------------------------------------------
(* The school the runs start from: its students, one tuition structure, no payment yet *)

FirstYear == CHOOSE y \in Years : \A z \in Years : y <= z

InitDB(ids, amount) ==
    /\ structures = <<NewStructure(1, 1, amount)>>
    /\ students = [s \in ids |-> StudentRows[s]]
    /\ ledger = <<>>
    /\ counters = [y \in Years |-> NoRow]
    /\ pc = [p \in Procs |-> "idle"]
    /\ txn = [p \in Procs |-> NoTxn]
    /\ ticks = 0
    /\ edits = 0
    /\ paid_month_rows = <<>>

-----------------------------------------------------------------------------
(* Spec: payments, syncs, fee-structure saves and month changes, one after the other *)

Init ==
    /\ today \in [year : {FirstYear}, month : {8, 12}]
    /\ InitDB({1, 3}, 1000)

Collect ==
    \E sid \in DOMAIN students, months \in {<<"Apr">>, <<"Apr", "May">>}, mode \in {"dues", "Previous Balance"} :
        LET items == SelectedItems(mode, sid, months, students, ledger, structures, today)
        IN  collect_fee(PaymentRequest(sid, months, items, 0, 0, Max(ItemsTotal(items), 0)))

Recalculate == \E sid \in DOMAIN students : recalculate_single_student(sid)

SaveOne ==
    \E e \in {<<1, 1, 0>>, <<1, 2, 500>>} : create_fee_structure(e[1], e[2], e[3])

SaveMany ==
    \E entries \in { <<[class_id |-> 1, fee_head_id |-> 1, amount |-> 0],
                       [class_id |-> 2, fee_head_id |-> 1, amount |-> 500]>> } :
        save_bulk_structure(entries)

Next ==
    \/ Collect
    \/ sync_all_student_balances
    \/ Recalculate
    \/ SaveOne
    \/ SaveMany
    \/ Tick

Spec == Init /\ [][Next]_vars

-----------------------------------------------------------------------------
(* SpecPay: one counter clerk sending payments of every shape, in May *)

MaxPay == 1

PayModes == {"dues"} \cup PreviousBalanceNames

PayAmounts == [discount : {0, 200}, fine : {0, 50}, amount_received : {0, 1000, 5000}]

\* The requests a clerk can send in the current state
PayRequests ==
    UNION { { PaymentRequest(sid, months,
                  SelectedItems(mode, sid, months, students, ledger, structures, today),
                  a.discount, a.fine, a.amount_received) :
                 months \in SelMonthLists, mode \in PayModes, a \in PayAmounts }
            : sid \in DOMAIN students }

InitPay ==
    /\ today = [year |-> FirstYear, month |-> 5]
    /\ InitDB({1, 2}, 1000)

CollectPay ==
    /\ Len(ledger) < MaxPay
    /\ \E pay \in PayRequests : collect_fee(pay)

NextPay ==
    \/ CollectPay
    \/ sync_all_student_balances
    \/ Recalculate

SpecPay == InitPay /\ [][NextPay]_vars

-----------------------------------------------------------------------------
(* SpecRace: two requests of POST /pay run statement by statement, each in its own
   database transaction. The store is PostgreSQL at READ COMMITTED: a query sees what is
   committed, a flushed write holds its row until commit or rollback, and a unique
   column refuses a second row with a committed value. *)

MaxRace == 3

Database == [ledger |-> ledger, counters |-> counters, students |-> students]

\* The transaction of a request that passed the student lookup
InFlight(pay, totals) ==
    [op |-> "pay", pay |-> pay, totals |-> totals, year |-> 0, seen |-> NoRow,
     last_number |-> 0, receipt_no |-> <<>>, row |-> <<>>, new_balance |-> 0]

\* return {"success": True, ..., "receipt_no": ..., "balance_due": new_balance}
Success(t) ==
    [op |-> "response", status_code |-> 200, receipt_no |-> t.receipt_no,
     detail |-> "Payment collected successfully"]

\* raise HTTPException(status_code=500, detail=f"Payment failed: ...")
Failure ==
    [op |-> "response", status_code |-> 500, receipt_no |-> <<>>, detail |-> "Payment failed"]

\* Mutant: the counter write outlives the rollback
AfterRollback_keeps_counter(db, t) ==
    IF t.last_number > 0
    THEN [db EXCEPT !.counters = [@ EXCEPT ![t.year] = t.last_number]]
    ELSE db

\* db.rollback(): the flushed counter and ledger writes are discarded
AfterRollback(db, t) == db

\* db.commit(): the counter, the ledger row and the student's balance become visible
AfterCommit(db, t) ==
    [ledger |-> Append(db.ledger, t.row),
     counters |-> [db.counters EXCEPT ![t.year] = t.last_number],
     students |-> [db.students EXCEPT ![t.pay.student_id].current_balance = t.new_balance]]

\* Process q has flushed a write to the counter row of the year and not yet finished
HoldsCounterRow(q, year) ==
    /\ pc[q] \in {"insert_ledger", "recalculate", "commit"}
    /\ txn[q].year = year

Step(p, label, t) ==
    /\ pc' = [pc EXCEPT ![p] = label]
    /\ txn' = [txn EXCEPT ![p] = t]

\* The except branch: rollback, then the 500 response
Rollback(p) ==
    /\ LET db == AfterRollback(Database, txn[p])
       IN  /\ ledger' = db.ledger
           /\ counters' = db.counters
           /\ students' = db.students
    /\ Step(p, "idle", Failure)
    /\ UNCHANGED <<paid_month_rows, today, structures, ticks, edits>>

\* The student lookup and the totals, before the try block
begin_collect(p, pay) ==
    /\ pc[p] = "idle"
    /\ Len(ledger) + Cardinality({q \in Procs : pc[q] # "idle"}) < MaxRace
    /\ ValidPaymentRequest(pay)
    /\ pay.student_id \in DOMAIN students
    /\ Step(p, "read_counter",
            InFlight(pay, PaymentTotals(pay, students[pay.student_id].current_balance)))
    /\ UNCHANGED <<paid_month_rows, today, structures, students, ledger, counters, ticks, edits>>

\* generate_receipt_number: the year and the query for its counter row
read_counter(p) ==
    /\ pc[p] = "read_counter"
    /\ Step(p, "flush_counter", [txn[p] EXCEPT !.year = today.year, !.seen = counters[today.year]])
    /\ UNCHANGED <<paid_month_rows, today, structures, students, ledger, counters, ticks, edits>>

\* The flush waits while another transaction holds the year's row; a second insert of a
\* year that is committed by then breaks the unique year
CounterRowExistsNow(p) == txn[p].seen = NoRow /\ counters[txn[p].year] # NoRow

\* generate_receipt_number: the increment of the row as read, the flush and the string
flush_counter(p) ==
    /\ pc[p] = "flush_counter"
    /\ ~\E q \in Procs \ {p} : HoldsCounterRow(q, txn[p].year)
    /\ ~CounterRowExistsNow(p)
    /\ LET gen == generate_receipt_number([counters EXCEPT ![txn[p].year] = txn[p].seen],
                                          [today EXCEPT !.year = txn[p].year])
       IN  Step(p, "insert_ledger",
                [txn[p] EXCEPT !.last_number = gen.counters[txn[p].year],
                               !.receipt_no = gen.receipt_no])
    /\ UNCHANGED <<paid_month_rows, today, structures, students, ledger, counters, ticks, edits>>

flush_counter_conflict(p) ==
    /\ pc[p] = "flush_counter"
    /\ ~\E q \in Procs \ {p} : HoldsCounterRow(q, txn[p].year)
    /\ CounterRowExistsNow(p)
    /\ Rollback(p)

\* db.add(ledger); db.flush()
insert_ledger(p) ==
    /\ pc[p] = "insert_ledger"
    /\ ~ReceiptNoTaken(ledger, txn[p].receipt_no)
    /\ Step(p, "recalculate",
            [txn[p] EXCEPT !.row = LedgerRow(txn[p].pay, txn[p].totals, txn[p].receipt_no, today)])
    /\ UNCHANGED <<paid_month_rows, today, structures, students, ledger, counters, ticks, edits>>

insert_ledger_conflict(p) ==
    /\ pc[p] = "insert_ledger"
    /\ ReceiptNoTaken(ledger, txn[p].receipt_no)
    /\ Rollback(p)

\* new_balance = calculate_student_dues(student, db), the flushed row included
recalculate(p) ==
    /\ pc[p] = "recalculate"
    /\ Step(p, "commit",
            [txn[p] EXCEPT !.new_balance =
                calculate_student_dues(txn[p].pay.student_id, students,
                                       Append(ledger, txn[p].row), structures, today)])
    /\ UNCHANGED <<paid_month_rows, today, structures, students, ledger, counters, ticks, edits>>

\* student.current_balance = new_balance; db.commit(); the 200 response
commit(p) ==
    /\ pc[p] = "commit"
    /\ LET db == AfterCommit(Database, txn[p])
       IN  /\ ledger' = db.ledger
           /\ counters' = db.counters
           /\ students' = db.students
    /\ Step(p, "idle", Success(txn[p]))
    /\ UNCHANGED <<paid_month_rows, today, structures, ticks, edits>>

\* Any statement of the try block raises (connection lost, lock timeout, disk full)
fail(p) ==
    /\ pc[p] # "idle"
    /\ Rollback(p)

InitRace ==
    /\ today = [year |-> FirstYear, month |-> 12]
    /\ InitDB({1, 2}, 1000)

BeginCollect ==
    \E p \in Procs :
        LET items == DueItems(p, <<"Apr">>, students, ledger, structures, today)
        IN  begin_collect(p, PaymentRequest(p, <<"Apr">>, items, 0, 0, ItemsTotal(items)))

NextRace ==
    \/ BeginCollect
    \/ \E p \in Procs : read_counter(p)
    \/ \E p \in Procs : flush_counter(p)
    \/ \E p \in Procs : flush_counter_conflict(p)
    \/ \E p \in Procs : insert_ledger(p)
    \/ \E p \in Procs : insert_ledger_conflict(p)
    \/ \E p \in Procs : recalculate(p)
    \/ \E p \in Procs : commit(p)
    \/ \E p \in Procs : fail(p)
    \/ Tick

SpecRace == InitRace /\ [][NextRace]_vars

-----------------------------------------------------------------------------
(* Properties of Spec *)

DuesNow(s) == get_student_dues(s, students, ledger, structures, today)

DuesNext(s) == get_student_dues(s, students', ledger', structures', today')

\* A payment for student s has just been committed
Collected(s) ==
    /\ Len(ledger') = Len(ledger) + 1
    /\ ledger'[Len(ledger')].student_id = s

\* The step stored a balance for student s
WroteBalance(s) ==
    \/ Collected(s)
    \/ recalculate_single_student(s)
    \/ (sync_all_student_balances /\ students[s].status)

\* C5 as claimed: every balance collect, sync or recalculate stores equals the total_due
\* GET /dues answers with in the state the write leaves
C5_WrittenBalanceIsTotalDue ==
    [][\A s \in DOMAIN students :
          WroteBalance(s) => students'[s].current_balance = DuesNext(s).total_due]_vars

\* C5 amended: the balance stored is that total_due, or 0 when the total is negative
C5_WrittenBalanceIsClampedTotalDue ==
    [][\A s \in DOMAIN students :
          WroteBalance(s) => students'[s].current_balance = Max(DuesNext(s).total_due, 0)]_vars

\* C5 witness: after a payment the student still owes, and the stored balance is that total
C5_Witness ==
    \E s \in DOMAIN students :
        /\ \E i \in 1..Len(ledger) : ledger[i].student_id = s /\ ledger[i].months_paid # <<>>
        /\ students[s].current_balance > 0
        /\ students[s].current_balance = DuesNow(s).total_due

\* The first j months of the academic cycle
FirstMonths(j) == SubSeq(MONTH_ORDER, 1, j)

\* The class of student s bills exactly one head, a monthly one, and s has no transport
\* and no receipt yet
OneMonthlyHeadNoPayment(s) ==
    LET heads == {i \in 1..Len(structures) :
                     /\ IsClassStructure(structures[i], students[s].class_id)
                     /\ ~fee_head_val(structures[i].fee_head_id).is_transport}
    IN  /\ Cardinality(heads) = 1
        /\ \A i \in heads : fee_head_val(structures[i].fee_head_id).frequency = "Monthly"
        /\ ~students[s].transport_opted
        /\ \A i \in 1..Len(ledger) : ledger[i].student_id # s

\* The amount A of that one head
HeadAmount(s) ==
    LET i == CHOOSE k \in 1..Len(structures) :
                 /\ IsClassStructure(structures[k], students[s].class_id)
                 /\ ~fee_head_val(structures[k].fee_head_id).is_transport
    IN  structures[i].amount

\* C6 as claimed: with one monthly head of amount A, no transport and no payment, the
\* dues in the k-th month total k*A; paying the first j months with the j due lines and
\* j*A received leaves balance_due 0 on the receipt and (k-j)*A in the next dues
C6_FirstPaymentSettlesPaidMonths ==
    /\ [](\A s \in DOMAIN students :
            OneMonthlyHeadNoPayment(s) =>
                DuesNow(s).total_due = Len(get_months_till_current(today)) * HeadAmount(s))
    /\ [][\A s \in DOMAIN students, j \in 1..MaxSel :
            LET k == Len(get_months_till_current(today))
                A == HeadAmount(s)
                items == DueItems(s, FirstMonths(j), students, ledger, structures, today)
            IN  ( /\ OneMonthlyHeadNoPayment(s)
                  /\ j <= k
                  /\ ItemsTotal(items) = j * A
                  /\ collect_fee(PaymentRequest(s, FirstMonths(j), items, 0, 0, j * A)) )
                => /\ ledger'[Len(ledger')].balance_due = 0
                   /\ DuesNext(s).total_due = (k - j) * A]_vars

\* C9: a sync leaves a state that a second sync would not change, and the second sync
\* would answer with the same count of updated students and the same total_pending_dues
C9_SyncIdempotent ==
    [][sync_all_student_balances =>
          /\ SyncStudents(students', ledger', structures', today') = students'
          /\ SyncResponse(students', ledger', structures', today')
                = SyncResponse(students, ledger, structures, today)]_vars

\* C9 witness: an active student without receipt whose stored balance is the positive
\* recomputed one, in a state a sync leaves as it is
C9_Witness ==
    /\ students = SyncStudents(students, ledger, structures, today)
    /\ \E s \in DOMAIN students :
          /\ students[s].status
          /\ students[s].current_balance > 0
          /\ \A i \in 1..Len(ledger) : ledger[i].student_id # s
          /\ SyncResponse(students, ledger, structures, today).total_pending_dues
                >= students[s].current_balance

\* Month m stands in months_paid of some ledger row of student s
InMonthsPaid(s, m) ==
    \E i \in 1..Len(ledger) :
        /\ ledger[i].student_id = s
        /\ \E k \in 1..Len(ledger[i].months_paid) : ledger[i].months_paid[k] = m

\* C10: ledger rows are never changed or removed, and in every state the dues of a
\* student show each line of a month found in months_paid as Paid and leave it out of
\* total_due
C10_PaidMonthStaysPaid ==
    /\ [][/\ Len(ledger') >= Len(ledger)
          /\ \A i \in 1..Len(ledger) : ledger'[i] = ledger[i]]_vars
    /\ [](\A s \in DOMAIN students :
            LET d == DuesNow(s).dues
            IN  /\ \A i \in 1..Len(d) : InMonthsPaid(s, d[i].month) => d[i].status = "Paid"
                /\ DuesNow(s).total_due =
                      SumSeq([i \in 1..Len(d) |->
                                IF InMonthsPaid(s, d[i].month) THEN 0 ELSE d[i].amount]))

\* C10 witness: after two payments and a fee-structure edit a paid month's line of
\* positive amount reads Paid
C10_Witness ==
    /\ Len(ledger) = 2
    /\ edits > 0
    /\ \E s \in DOMAIN students :
          LET d == DuesNow(s).dues
          IN  \E i \in 1..Len(d) :
                /\ InMonthsPaid(s, d[i].month)
                /\ d[i].amount > 0
                /\ d[i].status = "Paid"
                /\ ledger[1].student_id = s
                /\ ledger[2].student_id = s
                /\ ledger[1].months_paid # ledger[2].months_paid

-----------------------------------------------------------------------------
(* Properties of SpecPay *)

\* The selected items hold a line whose head starts with "previous balance"
HasPreviousBalanceLine(pay) ==
    \E i \in 1..Len(pay.selected_items) :
        pay.selected_items[i].fee_head \in {"Previous Balance", "previous balance (old)"}

\* C7: the total_due of the row a payment creates is the sum of the selected items plus
\* the student's stored balance, and the sum of the selected items alone when they
\* hold a previous-balance line
C7_CarriedBalanceCountedOnce ==
    [][Len(ledger') > Len(ledger) =>
          \A pay \in PayRequests :
              (pay.student_id = ledger'[Len(ledger')].student_id /\ collect_fee(pay)) =>
                  ledger'[Len(ledger')].total_due =
                      IF HasPreviousBalanceLine(pay)
                      THEN ItemsTotal(pay.selected_items)
                      ELSE ItemsTotal(pay.selected_items)
                              + students[pay.student_id].current_balance]_vars

\* C7 witness: one receipt whose breakdown carries the balance the handler added on top
\* of a due line
C7_Witness ==
    \E i \in 1..Len(ledger) :
        LET b == ledger[i].payment_breakdown
        IN  /\ <<"Previous Balance", "Carried Forward">> \in DOMAIN b
            /\ b[<<"Previous Balance", "Carried Forward">>] > 0
            /\ <<"Tuition Fee", "Apr">> \in DOMAIN b
            /\ ledger[i].total_due = b[<<"Previous Balance", "Carried Forward">>] + 1000

\* C8: every ledger row has net_payable = total_due - discount + fine and
\* balance_due = net_payable - paid_amount, and every request of non-negative discount,
\* fine and amount received is answered with a receipt, whether it leaves a positive
\* balance_due, none or a negative one
C8_RowArithmetic ==
    /\ \A i \in 1..Len(ledger) :
          /\ ledger[i].net_payable = ledger[i].total_due - ledger[i].discount + ledger[i].fine
          /\ ledger[i].balance_due = ledger[i].net_payable - ledger[i].paid_amount
    /\ \A pay \in PayRequests :
          /\ CollectSucceeds(pay, students, ledger, counters, structures, today)
          /\ LET row == CollectResult(pay, students, ledger, counters, structures, today)
                            .ledger[Len(ledger) + 1]
             IN  /\ row.paid_amount = pay.amount_received
                 /\ row.net_payable = row.total_due - pay.discount + pay.fine
                 /\ row.balance_due = row.net_payable - pay.amount_received

\* C8 witness: the receipt of total 1500, discount 200, fine 50 and 1000 received, with
\* net_payable 1350 and balance_due 350
C8_Witness ==
    \E i \in 1..Len(ledger) :
        /\ ledger[i].total_due = 1500
        /\ ledger[i].discount = 200
        /\ ledger[i].fine = 50
        /\ ledger[i].paid_amount = 1000
        /\ ledger[i].net_payable = 1350
        /\ ledger[i].balance_due = 350
        /\ \E pay \in PayRequests :
              PaymentTotals(pay, students[pay.student_id].current_balance).balance_due < 0

-----------------------------------------------------------------------------
(* Properties of SpecRace *)

\* The ledger rows whose receipt was issued for year y
RowsOfYear(L, y) == {i \in 1..Len(L) : ReceiptYear(L[i].receipt_no) = y}

\* C1: the committed ledger rows carry pairwise distinct receipt numbers, and two
\* requests answered with a receipt were answered with different ones, each on a row
C1_ReceiptsPairwiseDistinct ==
    /\ \A i, j \in 1..Len(ledger) : i # j => ledger[i].receipt_no # ledger[j].receipt_no
    /\ \A p \in Procs :
          (pc[p] = "idle" /\ txn[p].op = "response" /\ txn[p].status_code = 200) =>
              /\ \E i \in 1..Len(ledger) : ledger[i].receipt_no = txn[p].receipt_no
              /\ \A q \in Procs \ {p} :
                    (pc[q] = "idle" /\ txn[q].op = "response" /\ txn[q].status_code = 200)
                        => txn[q].receipt_no # txn[p].receipt_no

\* C1 witness: both requests read the same counter value; one has committed its receipt
\* and the other is about to insert a row with the very same number
C1_Witness ==
    \E p \in Procs :
        /\ pc[p] = "insert_ledger"
        /\ \E i \in 1..Len(ledger) :
              /\ ledger[i].receipt_no = txn[p].receipt_no
              /\ ledger[i].student_id # txn[p].pay.student_id

\* C2: the receipts of one year stand in the ledger in strictly increasing order, and
\* every step raises a year's last_number by the number of rows it commits for that
\* year: by one with a payment, by nothing otherwise
C2_StrictlyIncreasingPerYear ==
    /\ [](\A i, j \in 1..Len(ledger) :
            (i < j /\ ReceiptYear(ledger[i].receipt_no) = ReceiptYear(ledger[j].receipt_no))
                => ReceiptSeq(ledger[i].receipt_no) < ReceiptSeq(ledger[j].receipt_no))
    /\ [][\A y \in Years :
            /\ Cardinality(RowsOfYear(ledger', y)) - Cardinality(RowsOfYear(ledger, y)) \in {0, 1}
            /\ CounterBase(counters', y) =
                  CounterBase(counters, y)
                      + Cardinality(RowsOfYear(ledger', y)) - Cardinality(RowsOfYear(ledger, y))]_vars

\* C2 witness: three receipts in two years, the first year's counter at 2
C2_Witness ==
    /\ Len(ledger) = 3
    /\ counters[FirstYear] = 2
    /\ counters[FirstYear + 1] = 1
    /\ ReceiptSeq(ledger[1].receipt_no) = 1
    /\ ReceiptSeq(ledger[2].receipt_no) = 2
    /\ ReceiptYear(ledger[3].receipt_no) = FirstYear + 1
    /\ \E p \in Procs : txn[p] = Failure

\* A request of process p ends in this step
Ends(p) == pc[p] # "idle" /\ pc'[p] = "idle"

\* C3: a request that ends in failure leaves ledger, counters and balances as they are
\* and is answered with the 500 "Payment failed"; a request ends in failure or with its
\* commit; and nothing but that commit changes ledger, counters or balances
C3_AllOrNothing ==
    [][/\ \A p \in Procs :
            Ends(p) =>
                \/ /\ txn'[p] = Failure
                   /\ ledger' = ledger
                   /\ counters' = counters
                   /\ students' = students
                \/ /\ pc[p] = "commit"
                   /\ txn'[p].status_code = 200
                   /\ Len(ledger') = Len(ledger) + 1
       /\ (ledger' # ledger \/ counters' # counters \/ students' # students) =>
              \E p \in Procs : Ends(p) /\ pc[p] = "commit" /\ txn'[p].status_code = 200]_vars

\* C3 witness: a request was answered with the failure while the other one, its counter
\* write and its ledger row flushed, waits to commit
C3_Witness ==
    \E p, q \in Procs :
        /\ pc[p] = "idle"
        /\ txn[p] = Failure
        /\ pc[q] = "commit"
        /\ txn[q].last_number = CounterBase(counters, txn[q].year) + 1
        /\ Len(ledger) >= 1

\* C4: every ledger row carries a sequence between 1 and the last_number of its year,
\* and every sequence from 1 to a year's last_number is carried by exactly one row
C4_CounterAndLedgerAgree ==
    /\ \A i \in 1..Len(ledger) :
          LET y == ReceiptYear(ledger[i].receipt_no)
          IN  /\ y \in Years
              /\ ReceiptSeq(ledger[i].receipt_no) \in 1..CounterBase(counters, y)
    /\ \A y \in Years :
          \A n \in 1..CounterBase(counters, y) :
              Cardinality({i \in 1..Len(ledger) : ledger[i].receipt_no = ReceiptNo(y, n)}) = 1

\* C4 witness: two receipts committed for a year and a third number flushed, not yet
\* committed
C4_Witness ==
    \E y \in Years, p \in Procs :
        /\ counters[y] = 2
        /\ Cardinality(RowsOfYear(ledger, y)) = 2
        /\ pc[p] \in {"insert_ledger", "recalculate", "commit"}
        /\ txn[p].year = y
        /\ txn[p].last_number = 3

-----------------------------------------------------------------------------
(* SpecLegacy: a database that is also written by POST /pay-full of
   routers/collection.py, the collection page of the earlier version. main.py does not
   mount that router any more; the paid_months rows it wrote stay in the database. *)

MaxLegacy == 2

\* PaidMonth(student_id=..., month=m, session="2025-26")
PaidMonthRow(sid, m) == [student_id |-> sid, month |-> m, session |-> "2025-26"]

\* db.query(PaidMonth).filter(student_id == ..., month == m).first()
PaidMonthExists(rows, sid, m) ==
    \E i \in 1..Len(rows) : rows[i].student_id = sid /\ rows[i].month = m

\* The loop over pay.paid_months_list (months sent once each)
RECURSIVE MirrorMonths(_, _, _)
MirrorMonths(rows, sid, months) ==
    IF months = <<>> THEN rows
    ELSE MirrorMonths(IF PaidMonthExists(rows, sid, Head(months))
                      THEN rows
                      ELSE Append(rows, PaidMonthRow(sid, Head(months))),
                      sid, Tail(months))

\* POST /pay-full: the paid_months rows and the balance sent by the page; the
\* fee_transactions row it adds is read by nothing modelled here
submit_full_payment(pay) ==
    /\ Len(paid_month_rows) < MaxLegacy
    /\ paid_month_rows' = MirrorMonths(paid_month_rows, pay.student_id, pay.paid_months_list)
    /\ students' = IF pay.student_id \in DOMAIN students
                   THEN [students EXCEPT ![pay.student_id].current_balance = pay.balance]
                   ELSE students
    /\ UNCHANGED <<today, structures, ledger, counters, pc, txn, ticks, edits>>

InitLegacy ==
    /\ today = [year |-> FirstYear, month |-> 8]
    /\ InitDB({1, 2}, 1000)

LegacyPay ==
    \E sid \in DOMAIN students, months \in {<<"Apr">>, <<"May", "Jun">>}, balance \in {300} :
        submit_full_payment([student_id |-> sid, paid_months_list |-> months, balance |-> balance])

NextLegacy ==
    \/ LegacyPay
    \/ Collect
    \/ sync_all_student_balances

SpecLegacy == InitLegacy /\ [][NextLegacy]_vars

-----------------------------------------------------------------------------
(* Properties of SpecLegacy *)

\* Month m stands in a paid_months row of student s
InPaidMonthRows(s, m) ==
    \E i \in 1..Len(paid_month_rows) :
        paid_month_rows[i].student_id = s /\ paid_month_rows[i].month = m

\* C11 as claimed: a line of the dues reads Paid exactly when its month stands in
\* months_paid of one of the student's ledger rows or in one of the student's
\* paid_months rows, and reads Due otherwise
C11_PaidIffInLedgerOrPaidMonth ==
    \A s \in DOMAIN students :
        LET d == DuesNow(s).dues
        IN  \A i \in 1..Len(d) :
              /\ d[i].status \in {"Paid", "Due"}
              /\ d[i].status = "Paid" <=>
                    (InMonthsPaid(s, d[i].month) \/ InPaidMonthRows(s, d[i].month))

\* C12 as claimed: every month in months_paid of a ledger row has a paid_months row of
\* that student, paid_months rows are never removed, and no student has two rows for
\* one month
C12_LedgerMonthsMirrored ==
    /\ [](\A i \in 1..Len(ledger) :
            \A k \in 1..Len(ledger[i].months_paid) :
                InPaidMonthRows(ledger[i].student_id, ledger[i].months_paid[k]))
    /\ [](\A i, j \in 1..Len(paid_month_rows) :
            (i # j /\ paid_month_rows[i].student_id = paid_month_rows[j].student_id)
                => paid_month_rows[i].month # paid_month_rows[j].month)
    /\ [][/\ Len(paid_month_rows') >= Len(paid_month_rows)
          /\ \A i \in 1..Len(paid_month_rows) : paid_month_rows'[i] = paid_month_rows[i]]_vars

-----------------------------------------------------------------------------
(* SpecDues: the dues calculators over every month of the calendar, fee structures of
   every kind the two save endpoints leave behind, and students with and without a
   pickup point *)

InitDues ==
    /\ today \in [year : {FirstYear, FirstYear + 1}, month : 1..12]
    /\ InitDB({1, 2, 4, 5}, 1000)

\* One payment of April's due lines
CollectDues ==
    /\ Len(ledger) < MaxPay
    /\ \E sid \in DOMAIN students :
          LET items == DueItems(sid, <<"Apr">>, students, ledger, structures, today)
          IN  collect_fee(PaymentRequest(sid, <<"Apr">>, items, 0, 0, ItemsTotal(items)))

\* A save that zeroes the tuition, adds a one-time head, a transport head or a row of
\* another class
SaveDues ==
    \/ \E e \in {<<1, 1, 0>>, <<1, 2, 500>>, <<1, 3, 300>>} :
          create_fee_structure(e[1], e[2], e[3])
    \/ save_bulk_structure(<<[class_id |-> 1, fee_head_id |-> 1, amount |-> 0],
                             [class_id |-> 2, fee_head_id |-> 1, amount |-> 500]>>)

NextDues ==
    \/ CollectDues
    \/ SaveDues
    \/ sync_all_student_balances
    \/ Tick

SpecDues == InitDues /\ [][NextDues]_vars

-----------------------------------------------------------------------------
(* Properties of SpecDues *)

\* The number of the academic month the date lies in: April is 1, March is 12
AcademicMonthNo(t) == IF t.month >= 4 THEN t.month - 3 ELSE t.month + 9

\* C13: the month sequence of the dues calculators is the prefix of Apr..Mar that ends
\* at the month of the date, never empty, and the dues list has lines for exactly
\* these months
C13_MonthSequenceIsPrefix ==
    LET cycle == <<"Apr", "May", "Jun", "Jul", "Aug", "Sep", "Oct", "Nov", "Dec", "Jan", "Feb", "Mar">>
        calendar == <<"Jan", "Feb", "Mar", "Apr", "May", "Jun", "Jul", "Aug", "Sep", "Oct", "Nov", "Dec">>
        seq == get_months_till_current(today)
    IN  /\ Len(seq) = AcademicMonthNo(today)
        /\ Len(seq) >= 1
        /\ \A k \in 1..Len(seq) : seq[k] = cycle[k]
        /\ seq[Len(seq)] = calendar[today.month]
        /\ \A s \in DOMAIN students :
              {DuesNow(s).dues[i].month : i \in 1..Len(DuesNow(s).dues)} \subseteq Range(seq)
        /\ \A k \in 1..Len(seq) :
              \E i \in 1..Len(DuesNow(2).dues) : DuesNow(2).dues[i].month = seq[k]

\* C13 witness: the calendar went from December to January, the sequence has 10 months
\* and the sync stored ten months of tuition
C13_Witness ==
    /\ today.month = 1
    /\ ticks = 1
    /\ Len(get_months_till_current(today)) = 10
    /\ get_months_till_current(today)[10] = "Jan"
    /\ students[1].current_balance = 10000

\* The lines of student s's dues that come from fee head h
LinesOfHead(s, h) == {i \in 1..Len(DuesNow(s).dues) : DuesNow(s).dues[i].fee_head_id = h}

\* C14 as claimed: a head whose frequency is One-time or Annual has at most one line in
\* a student's dues, however many months the sequence has
C14_OneTimeHeadEmittedOnce ==
    \A s \in DOMAIN students :
        \A h \in {f.id : f \in {g \in FeeHeads : g.frequency \in {"One-time", "Annual"}}} :
            Cardinality(LinesOfHead(s, h)) <= 1

\* C15 as claimed: every line of the dues that comes from a fee structure row has an
\* amount above 0
C15_NoLineWithoutAmount ==
    \A s \in DOMAIN students :
        \A i \in 1..Len(DuesNow(s).dues) :
            DuesNow(s).dues[i].fee_head_id # 0 => DuesNow(s).dues[i].amount > 0

\* The transport lines of student s's dues
TransportLines(s) ==
    {i \in 1..Len(DuesNow(s).dues) : DuesNow(s).dues[i].fee_head = "Transport Fee"}

\* C16: a student with transport opted and an existing pickup point has exactly one
\* transport line for every month of the sequence, with the point's monthly charge and
\* the status of the month; any other student has no transport line
C16_TransportLinesIffOptedAndPoint ==
    \A s \in DOMAIN students :
        LET d == DuesNow(s).dues
            seq == get_months_till_current(today)
            point == students[s].pickup_point_id
        IN  IF students[s].transport_opted /\ point \in DOMAIN TransportPoints
            THEN /\ \A k \in 1..Len(seq) :
                       Cardinality({i \in TransportLines(s) : d[i].month = seq[k]}) = 1
                 /\ Cardinality(TransportLines(s)) = Len(seq)
                 /\ \A i \in TransportLines(s) :
                       /\ d[i].amount = TransportPoints[point]
                       /\ d[i].status = (IF InMonthsPaid(s, d[i].month) THEN "Paid" ELSE "Due")
                       /\ \A j \in 1..Len(d) : d[j].month = d[i].month => d[j].status = d[i].status
            ELSE TransportLines(s) = {}

\* C16 witness: in April the student with tuition 1000 and transport 500 owes 1500,
\* while the student whose pickup point does not exist and the one who has not opted
\* owe the tuition alone
C16_Witness ==
    /\ today.month = 4
    /\ DuesNow(2).total_due = 1500
    /\ Cardinality(TransportLines(2)) = 1
    /\ DuesNow(4).total_due = 1000
    /\ DuesNow(5).total_due = 1000
    /\ students[2].current_balance = 1500

\* The academic year the date lies in, April to March
AcademicYearOf(t) ==
    LET y == IF t.month >= 4 THEN t.year ELSE t.year - 1
    IN  CASE y = 2024 -> "2024-2025"
          [] y = 2025 -> "2025-2026"
          [] y = 2026 -> "2026-2027"
          [] OTHER -> "2027-2028"

\* C17 as claimed: every line of the dues that comes from a fee structure comes from a
\* row that is active, of the student's class and of the academic year of the date
C17_OnlyActiveClassYearRows ==
    \A s \in DOMAIN students :
        \A i \in 1..Len(DuesNow(s).dues) :
            DuesNow(s).dues[i].fee_head_id # 0 =>
                \E r \in 1..Len(structures) :
                    /\ structures[r].fee_head_id = DuesNow(s).dues[i].fee_head_id
                    /\ structures[r].amount = DuesNow(s).dues[i].amount
                    /\ structures[r].is_active
                    /\ structures[r].class_id = students[s].class_id
                    /\ structures[r].academic_year = AcademicYearOf(today)

-----------------------------------------------------------------------------
(* SpecValidate: POST /pay as the client sees it, with the requests the request model
   refuses, the requests for a student that does not exist and the answers they get *)

HTTP_OK == 200

HTTP_NOT_FOUND == 404

HTTP_UNPROCESSABLE == 422

HTTP_SERVER_ERROR == 500

\* The status POST /pay answers with: the request model is validated before the handler
\* runs, the handler looks the student up first, and a refused insert is rolled back
PayStatus(pay, S, L, C, F, t) ==
    IF ~ValidPaymentRequest(pay) THEN HTTP_UNPROCESSABLE
    ELSE IF pay.student_id \notin DOMAIN S THEN HTTP_NOT_FOUND
    ELSE IF ReceiptNoTaken(L, CollectResult(pay, S, L, C, F, t).receipt_no) THEN HTTP_SERVER_ERROR
    ELSE HTTP_OK

\* The body of the answer
PayResponse(pay, S, L, C, F, t) ==
    LET status == PayStatus(pay, S, L, C, F, t)
    IN  IF status = HTTP_OK
        THEN LET res == CollectResult(pay, S, L, C, F, t)
             IN  [op |-> "pay", request |-> pay, status |-> status,
                  receipt_no |-> res.receipt_no, balance_due |-> res.balance_due]
        ELSE [op |-> "pay", request |-> pay, status |-> status]

\* POST /pay, answered: the answer is kept in txn[1]
collect_fee_answered(pay) ==
    LET resp == PayResponse(pay, students, ledger, counters, structures, today)
    IN  /\ txn' = [txn EXCEPT ![1] = resp]
        /\ IF resp.status = HTTP_OK
           THEN LET res == CollectResult(pay, students, ledger, counters, structures, today)
                IN  /\ Len(ledger) < MaxPay
                    /\ ledger' = res.ledger
                    /\ counters' = res.counters
                    /\ students' = res.students
           ELSE UNCHANGED <<ledger, counters, students>>
        /\ UNCHANGED <<paid_month_rows, today, structures, pc, ticks, edits>>

\* The values a client puts into the fields the request model constrains; no student
\* has the id 7
RequestStudents == {1, 2, 7}

RequestModes == {"Cash", "UPI", "Card"}

RequestAmounts == {0, -1}

RequestMonthLists == {<<"Apr">>, <<"Apr", "April">>}

\* The requests sent: April's due lines of a student, with every field the request model
\* constrains taken from a good and a bad value
ValidateRequests ==
    {[student_id |-> sid, selected_months |-> months,
      selected_items |-> DueItems(IF sid \in DOMAIN students THEN sid ELSE 1, <<"Apr">>,
                                  students, ledger, structures, today),
      payment_mode |-> mode, discount |-> discount, fine |-> fine,
      amount_received |-> IF received = 0 THEN 1000 ELSE received] :
        sid \in RequestStudents, months \in RequestMonthLists,
        mode \in RequestModes, discount \in RequestAmounts, fine \in RequestAmounts,
        received \in RequestAmounts}

InitValidate ==
    /\ today \in [year : {FirstYear}, month : {12}]
    /\ InitDB({1, 2}, 1000)

CollectValidate == \E pay \in ValidateRequests : collect_fee_answered(pay)

NextValidate ==
    \/ CollectValidate
    \/ Tick

SpecValidate == InitValidate /\ [][NextValidate]_vars

-----------------------------------------------------------------------------
(* Properties of SpecValidate *)

\* The request breaks a rule of the request model, in the claim's words
BadRequest(pay) ==
    \/ pay.payment_mode \notin {"Cash", "UPI", "Cheque", "Bank Transfer"}
    \/ pay.discount < 0
    \/ pay.fine < 0
    \/ pay.amount_received < 0
    \/ \E i \in 1..Len(pay.selected_months) :
          pay.selected_months[i] \notin {"Apr", "May", "Jun", "Jul", "Aug", "Sep", "Oct", "Nov",
                                         "Dec", "Jan", "Feb", "Mar"}

\* The step answers a POST /pay request
Answered == txn'[1].op = "pay" /\ (txn'[1] # txn[1] \/ ledger' # ledger)

-----------------------------------------------------------------------------
(* SpecReceipt: generate_receipt_number called again and again on the counter row of
   the year, from counter values on both sides of every change in the number of digits *)

MaxIssue == 3

\* last_number of the year's row before the first call: no row yet, or a row that has
\* served that many receipts
StartNumbers == {NoRow, 0, 8, 98, 998, 9998, 99998}

\* The calls made so far
Issued == IF txn[1].op = "receipt" THEN txn[1].calls ELSE 0

\* One call of generate_receipt_number with its flush; the string it returns is kept in txn[1]
issue_receipt ==
    LET gen == generate_receipt_number(counters, today)
    IN  /\ Issued < MaxIssue
        /\ counters' = gen.counters
        /\ txn' = [txn EXCEPT ![1] = [op |-> "receipt", receipt_no |-> gen.receipt_no,
                                      calls |-> Issued + 1]]
        /\ UNCHANGED <<paid_month_rows, today, structures, students, ledger, pc, ticks, edits>>

InitReceipt ==
    /\ today \in [year : {FirstYear, FirstYear + 1}, month : {11, 12}]
    /\ structures = <<NewStructure(1, 1, 1000)>>
    /\ students = [s \in {1} |-> StudentRows[s]]
    /\ ledger = <<>>
    /\ counters \in {[y \in Years |-> IF y = today.year THEN n ELSE NoRow] : n \in StartNumbers}
    /\ pc = [p \in Procs |-> "idle"]
    /\ txn = [p \in Procs |-> NoTxn]
    /\ ticks = 0
    /\ edits = 0
    /\ paid_month_rows = <<>>

NextReceipt ==
    \/ issue_receipt
    \/ Tick

SpecReceipt == InitReceipt /\ [][NextReceipt]_vars

-----------------------------------------------------------------------------
(* Properties of SpecReceipt *)

\* The receipt has the prefix REC, the year and the decimal digits of the number
WellFormedReceipt(r, year, n) ==
    /\ Len(r) = 3
    /\ r[1] = "REC"
    /\ r[2] = year
    /\ \A i \in 1..Len(r[3]) : r[3][i] \in 0..9
    /\ ValueOf(r[3]) = n

\* The step is a call of the generator
Generated == txn'[1] # txn[1] /\ txn'[1].op = "receipt"

\* The original claim of C19: the sequence has exactly four digits for every counter value
C19_ExactlyFourDigits ==
    [][Generated =>
          /\ WellFormedReceipt(txn'[1].receipt_no, today.year, counters'[today.year])
          /\ Len(txn'[1].receipt_no[3]) = 4]_vars

\* C19 as amended: every receipt number is REC-<year>-<sequence> with the year the
\* number is scoped to and the new counter value as sequence, zero-padded to exactly four
\* digits below 10000 and written with all its digits, without padding, from 10000 on
C19_AtLeastFourDigits ==
    [][Generated =>
          LET r == txn'[1].receipt_no
              n == counters'[today.year]
          IN  /\ n = CounterBase(counters, today.year) + 1
              /\ WellFormedReceipt(r, today.year, n)
              /\ Len(r[3]) >= 4
              /\ n < 10000 => Len(r[3]) = 4
              /\ n >= 10000 => r[3][1] # 0]_vars

\* The generator has passed 9999 and returned a number of five digits
C19_Witness ==
    /\ txn[1].op = "receipt"
    /\ counters[today.year] = 10000
    /\ txn[1].receipt_no = <<"REC", today.year, <<1, 0, 0, 0, 0>>>>

-----------------------------------------------------------------------------
(* SpecSame: the two requests of SpecRace, both for student 1, one paying April and the
   other May, over the change of the year *)

BeginSame ==
    \E p \in Procs :
        LET months == <<MONTH_ORDER[p]>>
            items == DueItems(1, months, students, ledger, structures, today)
        IN  begin_collect(p, PaymentRequest(1, months, items, 0, 0, ItemsTotal(items)))

NextSame ==
    \/ BeginSame
    \/ \E p \in Procs : read_counter(p)
    \/ \E p \in Procs : flush_counter(p)
    \/ \E p \in Procs : flush_counter_conflict(p)
    \/ \E p \in Procs : insert_ledger(p)
    \/ \E p \in Procs : insert_ledger_conflict(p)
    \/ \E p \in Procs : recalculate(p)
    \/ \E p \in Procs : commit(p)
    \/ \E p \in Procs : fail(p)
    \/ Tick

SpecSame == InitRace /\ [][NextSame]_vars

-----------------------------------------------------------------------------
(* Properties of SpecSame *)

PrevMonth(t) == IF t.month = 1 THEN [year |-> t.year - 1, month |-> 12]
                ELSE [year |-> t.year, month |-> t.month - 1]

\* The date t and the k months before it
RECURSIVE MonthsBack(_, _)
MonthsBack(t, k) == IF k = 0 THEN {t} ELSE {t} \cup MonthsBack(PrevMonth(t), k - 1)

\* The step commits the second of two payments of student s
SecondCommit(s) ==
    /\ Len(ledger) = 1
    /\ Len(ledger') = 2
    /\ \A i \in 1..2 : ledger'[i].student_id = s

\* C20: when two payments of one student have both committed, the stored balance is the
\* dues recomputed from the ledger with both rows, as of a date the second request ran
\* on: no month either payment paid is counted as unpaid
C20_NoLostBalanceUpdate ==
    [][\A s \in DOMAIN students :
          SecondCommit(s) =>
             \E t \in MonthsBack(today', ticks') :
                students'[s].current_balance =
                   calculate_student_dues(s, students', ledger', structures', t)]_vars

-----------------------------------------------------------------------------
(* The stored balance under SpecLegacy *)

\* C21: current_balance changes only in a step of the payment processor or of the
\* balance sync (of all students or of one), and the value stored is the dues computed
\* from the ledger and the fee structure the step leaves; no step stores a balance the
\* caller sent
C21_BalanceOnlyRecomputed ==
    [][\A s \in DOMAIN students :
          students'[s].current_balance # students[s].current_balance =>
             /\ WroteBalance(s)
             /\ students'[s].current_balance =
                   calculate_student_dues(s, students', ledger', structures', today')]_vars

-----------------------------------------------------------------------------
(* SpecStructure: two requests of POST /structure and POST /structure/bulk run query
   by query, each in its own session. A query sees the committed rows and, when the
   session flushes before queries, the rows the request has added itself; the unique
   constraint uq_class_feehead_year refuses a second row of a (class, head, year). *)

MaxSaves == 3

StructureKey(row) == <<row.class_id, row.fee_head_id, row.academic_year>>

\* Mutant: the table has no unique constraint
StructureKeyTaken_never(F, row) == FALSE

\* uq_class_feehead_year: the table holds a row of the same class, head and year
StructureKeyTaken(F, row) == \E i \in 1..Len(F) : StructureKey(F[i]) = StructureKey(row)

\* The session of a save request: the entries still to do and the writes not yet committed
Saving(bulk, entries, autoflush) ==
    [op |-> "save", bulk |-> bulk, todo |-> entries, autoflush |-> autoflush,
     updates |-> <<>>, inserts |-> <<>>]

SaveDone == [op |-> "response", status_code |-> 200, detail |-> "Saved"]

SaveFailed == [op |-> "response", status_code |-> 500, detail |-> "IntegrityError"]

\* is_active as the endpoint sets it on a row it found
ActiveAfter(bulk, amount) == IF bulk THEN amount > 0 ELSE TRUE

\* The session after the query and the if/else of one entry e
StageEntry(t, F, e) ==
    LET committed == ExistingStructure(F, e.class_id, e.fee_head_id)
        pending == IF t.autoflush
                   THEN ExistingStructure(t.inserts, e.class_id, e.fee_head_id)
                   ELSE {}
        rest == [t EXCEPT !.todo = Tail(t.todo)]
    IN  IF committed # {}
        THEN LET i == CHOOSE k \in committed : \A j \in committed : k <= j
             IN  [rest EXCEPT !.updates = Append(@, [id |-> i, amount |-> e.amount,
                                                     is_active |-> ActiveAfter(t.bulk, e.amount)])]
        ELSE IF pending # {}
        THEN LET i == CHOOSE k \in pending : \A j \in pending : k <= j
             IN  [rest EXCEPT !.inserts[i].amount = e.amount,
                              !.inserts[i].is_active = ActiveAfter(t.bulk, e.amount)]
        ELSE IF t.bulk /\ ~(e.amount > 0)
        THEN rest
        ELSE [rest EXCEPT !.inserts = Append(@, NewStructure(e.class_id, e.fee_head_id, e.amount))]

RECURSIVE ApplyUpdates(_, _)
ApplyUpdates(F, updates) ==
    IF updates = <<>> THEN F
    ELSE ApplyUpdates([F EXCEPT ![Head(updates).id].amount = Head(updates).amount,
                                ![Head(updates).id].is_active = Head(updates).is_active],
                      Tail(updates))

\* The inserts of the session meet the unique constraint: no committed row and no other
\* insert of the session has the key
InsertsRefused(F, inserts) ==
    \E i \in 1..Len(inserts) :
        \/ StructureKeyTaken(F, inserts[i])
        \/ StructureKeyTaken(SubSeq(inserts, 1, i - 1), inserts[i])

\* The request arrives
begin_save(p, bulk, entries, autoflush) ==
    /\ pc[p] = "idle"
    /\ edits < MaxSaves
    /\ edits' = edits + 1
    /\ Step(p, "query_structure", Saving(bulk, entries, autoflush))
    /\ UNCHANGED <<paid_month_rows, today, structures, students, ledger, counters, ticks>>

\* db.query(FeeStructure).filter(...).first() and the branch taken on its result
query_structure(p) ==
    /\ pc[p] = "query_structure"
    /\ txn[p].todo # <<>>
    /\ Step(p, "query_structure", StageEntry(txn[p], structures, Head(txn[p].todo)))
    /\ UNCHANGED <<paid_month_rows, today, structures, students, ledger, counters, ticks, edits>>

\* db.commit()
commit_save(p) ==
    /\ pc[p] = "query_structure"
    /\ txn[p].todo = <<>>
    /\ ~InsertsRefused(structures, txn[p].inserts)
    /\ structures' = ApplyUpdates(structures, txn[p].updates) \o txn[p].inserts
    /\ Step(p, "idle", SaveDone)
    /\ UNCHANGED <<paid_month_rows, today, students, ledger, counters, ticks, edits>>

\* db.commit() raises: nothing of the request is kept
commit_save_conflict(p) ==
    /\ pc[p] = "query_structure"
    /\ txn[p].todo = <<>>
    /\ InsertsRefused(structures, txn[p].inserts)
    /\ Step(p, "idle", SaveFailed)
    /\ UNCHANGED <<paid_month_rows, today, structures, students, ledger, counters, ticks, edits>>

\* The saves sent: a new head for class 1, the tuition of class 1 again, a bulk list
\* naming one new tuple twice and a bulk list with a zero and a new class
SaveRequests ==
    {[bulk |-> FALSE, entries |-> <<[class_id |-> 1, fee_head_id |-> 2, amount |-> 500]>>],
     [bulk |-> FALSE, entries |-> <<[class_id |-> 1, fee_head_id |-> 1, amount |-> 0]>>],
     [bulk |-> TRUE, entries |-> <<[class_id |-> 1, fee_head_id |-> 2, amount |-> 300],
                                   [class_id |-> 1, fee_head_id |-> 2, amount |-> 700]>>],
     [bulk |-> TRUE, entries |-> <<[class_id |-> 1, fee_head_id |-> 1, amount |-> 0],
                                   [class_id |-> 2, fee_head_id |-> 1, amount |-> 500]>>]}

BeginSave ==
    \E p \in Procs, r \in SaveRequests, autoflush \in BOOLEAN :
        begin_save(p, r.bulk, r.entries, autoflush)

InitStructure ==
    /\ today = [year |-> FirstYear, month |-> 8]
    /\ InitDB({1, 2}, 1000)

NextStructure ==
    \/ BeginSave
    \/ \E p \in Procs : query_structure(p)
    \/ \E p \in Procs : commit_save(p)
    \/ \E p \in Procs : commit_save_conflict(p)

SpecStructure == InitStructure /\ [][NextStructure]_vars

-----------------------------------------------------------------------------
(* Properties of SpecStructure *)

\* The rows of the class, head and academic year of key k
RowsOfKey(F, k) == {i \in 1..Len(F) : <<F[i].class_id, F[i].fee_head_id, F[i].academic_year>> = k}

KeysOf(F) == {<<F[i].class_id, F[i].fee_head_id, F[i].academic_year>> : i \in 1..Len(F)}

\* C22: after any sequence of single and bulk saves, repeated or concurrent, no class,
\* head and academic year has two rows (so at most one active amount), and a save of a
\* tuple that has a row changes that row and adds none
C22_OneRowPerClassHeadYear ==
    /\ [](\A k \in KeysOf(structures) : Cardinality(RowsOfKey(structures, k)) = 1)
    /\ [][/\ Len(structures') >= Len(structures)
          /\ \A i \in 1..Len(structures) :
                <<structures'[i].class_id, structures'[i].fee_head_id, structures'[i].academic_year>>
                   = <<structures[i].class_id, structures[i].fee_head_id, structures[i].academic_year>>
          /\ Len(structures') - Len(structures)
                = Cardinality(KeysOf(structures') \ KeysOf(structures))]_vars

\* Three saves, two of them of the same new tuple: the tuple has one row, with the amount
\* of the bulk list that named it twice, and a request whose insert met the row was refused
C22_Witness ==
    /\ \E p \in Procs : txn[p] = SaveFailed
    /\ \E p \in Procs : txn[p] = SaveDone
    /\ edits = 3
    /\ Len(structures) = 2
    /\ structures[2].class_id = 1 /\ structures[2].fee_head_id = 2
    /\ structures[2].amount = 700

-----------------------------------------------------------------------------
(* SpecSync: POST /sync-balances run student by student in one session with its single
   commit after the loop; any query of the loop, and the commit, may raise *)

\* The session of a sync: the active students still to do and the balances assigned so far
Syncing(todo) == [op |-> "sync", todo |-> todo, assigned |-> <<>>, total_dues |-> 0]

SyncFailed == [op |-> "response", status_code |-> 500, assigned |-> <<>>]

\* students = db.query(Student).filter(Student.status == True).all()
sync_begin(p) ==
    /\ pc[p] = "idle"
    /\ txn[p].op = "none"
    /\ Step(p, "sync_loop",
            Syncing(SelectSeq(StudentOrder, LAMBDA s : s \in DOMAIN students /\ students[s].status)))
    /\ UNCHANGED <<paid_month_rows, today, structures, students, ledger, counters, ticks, edits>>

\* One pass of the loop: the new balance is set on the student object of the session
sync_student(p) ==
    /\ pc[p] = "sync_loop"
    /\ txn[p].todo # <<>>
    /\ LET s == Head(txn[p].todo)
           new_balance == calculate_student_dues(s, students, ledger, structures, today)
       IN  Step(p, "sync_loop",
                [txn[p] EXCEPT !.todo = Tail(@),
                               !.assigned = Append(@, [student_id |-> s, new_balance |-> new_balance]),
                               !.total_dues = @ + new_balance])
    /\ UNCHANGED <<paid_month_rows, today, structures, students, ledger, counters, ticks, edits>>

RECURSIVE ApplyBalances(_, _)
ApplyBalances(S, assigned) ==
    IF assigned = <<>> THEN S
    ELSE ApplyBalances([S EXCEPT ![Head(assigned).student_id].current_balance = Head(assigned).new_balance],
                       Tail(assigned))

\* db.commit() after the loop, and the response
sync_commit(p) ==
    /\ pc[p] = "sync_loop"
    /\ txn[p].todo = <<>>
    /\ students' = ApplyBalances(students, txn[p].assigned)
    /\ Step(p, "idle", [op |-> "response", status_code |-> 200, assigned |-> txn[p].assigned,
                        total_pending_dues |-> txn[p].total_dues])
    /\ UNCHANGED <<paid_month_rows, today, structures, ledger, counters, ticks, edits>>

\* A query of the loop or the commit raises: the session is closed without a commit and
\* the response keeps, for the record, what the loop had assigned
sync_fail(p) ==
    /\ pc[p] = "sync_loop"
    /\ Step(p, "idle", [SyncFailed EXCEPT !.assigned = txn[p].assigned])
    /\ UNCHANGED <<paid_month_rows, today, structures, students, ledger, counters, ticks, edits>>

InitSync ==
    /\ today \in [year : {FirstYear}, month : {4, 8, 12}]
    /\ \E ids \in {{1, 2}, {1, 2, 3}, {1, 4, 5}} : InitDB(ids, 1000)

NextSync ==
    \/ sync_begin(1)
    \/ sync_student(1)
    \/ sync_commit(1)
    \/ sync_fail(1)
    \/ CollectDues
    \/ Tick

SpecSync == InitSync /\ [][NextSync]_vars

-----------------------------------------------------------------------------
(* Properties of SpecSync *)

\* The step ends a sync with a failure after the loop had done at least one student
SyncFailedAfterProgress == txn[1].op = "sync" /\ txn'[1].op = "response" /\ txn'[1].status_code = 500
                           /\ txn[1].assigned # <<>>

\* C23: when the sync fails at one student, the balances recomputed for the students
\* before it are committed, and every student's balance is the recomputed one or the old one
C23_ProgressBeforeFailureKept ==
    [][SyncFailedAfterProgress =>
          /\ \A i \in 1..Len(txn[1].assigned) :
                students'[txn[1].assigned[i].student_id].current_balance
                   = txn[1].assigned[i].new_balance
          /\ \A s \in DOMAIN students :
                \/ students'[s].current_balance = students[s].current_balance
                \/ \E i \in 1..Len(txn[1].assigned) :
                      /\ txn[1].assigned[i].student_id = s
                      /\ students'[s].current_balance = txn[1].assigned[i].new_balance]_vars

-----------------------------------------------------------------------------
(* SpecMonths: payments whose selected_months name a month once, twice, or again after
   an earlier receipt, and payments whose selected_items name a line twice *)

MonthLists == {<<"Apr">>, <<"Apr", "Apr">>, <<"May", "Apr", "May">>, <<"May", "Jun">>}

InitMonths ==
    /\ today \in [year : {FirstYear}, month : {6, 12}]
    /\ InitDB({1, 2}, 1000)

CollectMonths ==
    \E sid \in DOMAIN students, months \in MonthLists :
        LET items == DueItems(sid, months, students, ledger, structures, today)
        IN  collect_fee(PaymentRequest(sid, months, items, 0, 0, ItemsTotal(items)))

\* A request whose selected_items hold every due line of the month twice
CollectItemsTwice ==
    \E sid \in DOMAIN students, months \in {<<"Apr">>, <<"May", "Jun">>} :
        LET items == DueItems(sid, months, students, ledger, structures, today)
        IN  collect_fee(PaymentRequest(sid, months, items \o items, 0, 0, 2 * ItemsTotal(items)))

NextMonths ==
    \/ CollectMonths
    \/ CollectItemsTwice
    \/ sync_all_student_balances
    \/ Tick

SpecMonths == InitMonths /\ [][NextMonths]_vars

-----------------------------------------------------------------------------
(* Properties of SpecMonths *)

\* C24: months_paid of every ledger row holds each month token at most once
C24_MonthsPaidUnique ==
    \A i \in 1..Len(ledger) :
        \A j, k \in 1..Len(ledger[i].months_paid) :
            j # k => ledger[i].months_paid[j] # ledger[i].months_paid[k]

\* C27: the months_paid of two ledger rows of one student have no month in common
C27_NoMonthPaidTwice ==
    \A i, j \in 1..Len(ledger) :
        (i # j /\ ledger[i].student_id = ledger[j].student_id)
            => Range(ledger[i].months_paid) \cap Range(ledger[j].months_paid) = {}

-----------------------------------------------------------------------------
(* The dashboard statistic under Spec *)

\* get_dashboard_stats: total_pending, func.sum(Student.current_balance) over all students
total_pending(S) ==
    LET all == SelectSeq(StudentOrder, LAMBDA s : s \in DOMAIN S)
    IN  SumSeq([i \in 1..Len(all) |-> S[all[i]].current_balance])

\* C25: right after a sync the dashboard's total_pending equals the total_pending_dues
\* the sync answered with, whatever students are active
C25_DashboardMatchesSync ==
    [][sync_all_student_balances =>
          total_pending(students')
             = SyncResponse(students, ledger, structures, today).total_pending_dues]_vars

-----------------------------------------------------------------------------
(* Billing under SpecMonths *)

\* The sum of the values of a breakdown
RECURSIVE SumOfValues(_, _)
SumOfValues(f, keys) ==
    IF keys = {} THEN 0
    ELSE LET k == CHOOSE x \in keys : TRUE
         IN  f[k] + SumOfValues(f, keys \ {k})

\* No line was sent twice, and every line of the row's breakdown that the handler did not
\* add itself is a Due line of the student's dues before the payment, with its amount
BilledFromDues(row, s) ==
    /\ SumOfValues(row.payment_breakdown, DOMAIN row.payment_breakdown) = row.total_due
    /\ \A k \in DOMAIN row.payment_breakdown \ {<<"Previous Balance", "Carried Forward">>} :
          \E i \in 1..Len(DuesNow(s).dues) :
              LET e == DuesNow(s).dues[i]
              IN  /\ e.status = "Due"
                  /\ <<e.fee_head, e.month>> = k
                  /\ e.amount = row.payment_breakdown[k]

\* C26: when the stored balance equals the recomputed dues and the caller selects Due
\* lines as GET /dues returned them, the total_due of the new ledger row does not exceed
\* the total_due of the student's dues before the payment
C26_NoObligationBilledTwice ==
    [][\A s \in DOMAIN students :
          (/\ Collected(s)
           /\ students[s].current_balance
                 = calculate_student_dues(s, students, ledger, structures, today)
           /\ BilledFromDues(ledger'[Len(ledger')], s))
          => ledger'[Len(ledger')].total_due <= DuesNow(s).total_due]_vars

\* C28: on every ledger row the values of payment_breakdown sum to total_due
C28_BreakdownSumsToTotalDue ==
    \A i \in 1..Len(ledger) :
        SumOfValues(ledger[i].payment_breakdown, DOMAIN ledger[i].payment_breakdown)
            = ledger[i].total_due

-----------------------------------------------------------------------------
(* The year of a receipt under SpecRace *)

\* C29: the year in the receipt number of every ledger row is the calendar year of the
\* row's transaction_date
C29_ReceiptYearIsTransactionYear ==
    \A i \in 1..Len(ledger) :
        ReceiptYear(ledger[i].receipt_no) = ledger[i].transaction_date.year

-----------------------------------------------------------------------------
(* The sign of the stored balance under Spec *)

\* C30: every balance collect, sync and recalculate store is at least 0, and so is every
\* stored balance, also for a student with a receipt whose balance_due is negative
C30_StoredBalanceNeverNegative ==
    /\ [](\A s \in DOMAIN students : students[s].current_balance >= 0)
    /\ [][\A s \in DOMAIN students : WroteBalance(s) => students'[s].current_balance >= 0]_vars

\* A student has a receipt with a negative balance_due, the lines still due sum to less
\* than 0, and the balance stored by the payment is 0
C30_Witness ==
    \E s \in DOMAIN students :
        /\ \E i \in 1..Len(ledger) : ledger[i].student_id = s /\ ledger[i].balance_due < 0
        /\ DuesNow(s).total_due < 0
        /\ students[s].current_balance = 0

=============================================================================
